---------------------------- MODULE Spec2Model ----------------------------
(***************************************************************************)
(* Security-deposit refund demo (damageVerifierMultiAgent): three uAgents  *)
(* exchanging typed messages.                                              *)
(*   damage_verifier.py   verify_damage      DamageRequest -> DamageResponse*)
(*   payment_processor.py process_payment    PaymentRequest -> PaymentResp. *)
(*   client.py            the orchestrator: a 10 s interval timer and two   *)
(*                        response handlers, with two module globals.       *)
(*                                                                          *)
(* Amounts are Python floats (IEEE-754 binary64).  They are modelled as     *)
(* exact binary64 values, the mantissa held in 15-bit limbs, with the       *)
(* round-to-nearest, ties-to-even arithmetic of the hardware, so that       *)
(* claim_amount * 0.2, claim_amount - deduction and their sum are the       *)
(* values the interpreter computes.  Only non-negative finite values far    *)
(* from the exponent limits are modelled.                                   *)
(***************************************************************************)
EXTENDS Integers, Sequences, FiniteSets, TLC

(***************************************************************************)
(* Natural numbers as little-endian sequences of 15-bit limbs without      *)
(* leading zero limbs (the empty sequence is 0): a binary64 mantissa and    *)
(* the exact 106-bit product of two of them do not fit TLC's 32-bit         *)
(* integers, while a product of two limbs plus a carry does.                *)
(***************************************************************************)
LimbBits == 15
Base == 2^LimbBits

RECURSIVE LNorm(_)
LNorm(a) ==
    IF a = <<>> THEN <<>>
    ELSE IF a[Len(a)] # 0 THEN a
    ELSE LNorm(SubSeq(a, 1, Len(a) - 1))

RECURSIVE LFromNat(_)
LFromNat(n) == IF n = 0 THEN <<>> ELSE <<n % Base>> \o LFromNat(n \div Base)

RECURSIVE LAddC(_, _, _)
LAddC(a, b, c) ==
    IF a = <<>> /\ b = <<>> THEN (IF c = 0 THEN <<>> ELSE <<c>>)
    ELSE LET x == IF a = <<>> THEN 0 ELSE Head(a)
             y == IF b = <<>> THEN 0 ELSE Head(b)
             s == x + y + c
         IN  <<s % Base>> \o LAddC(IF a = <<>> THEN <<>> ELSE Tail(a),
                                   IF b = <<>> THEN <<>> ELSE Tail(b),
                                   s \div Base)

LAdd(a, b) == LAddC(a, b, 0)

\* a - b for a >= b, the borrow rippling up from the low limb.
RECURSIVE LSubC(_, _, _)
LSubC(a, b, c) ==
    IF a = <<>> THEN <<>>
    ELSE LET y == IF b = <<>> THEN 0 ELSE Head(b)
             s == Head(a) - y - c
         IN  <<s % Base>> \o LSubC(Tail(a),
                                   IF b = <<>> THEN <<>> ELSE Tail(b),
                                   IF s < 0 THEN 1 ELSE 0)

LSub(a, b) == LNorm(LSubC(a, b, 0))

\* a * s + c for a single limb s
RECURSIVE LMulSmall(_, _, _)
LMulSmall(a, s, c) ==
    IF a = <<>> THEN (IF c = 0 THEN <<>> ELSE <<c>>)
    ELSE LET p == Head(a) * s + c
         IN  <<p % Base>> \o LMulSmall(Tail(a), s, p \div Base)

RECURSIVE LMul(_, _)
LMul(a, b) ==
    IF a = <<>> \/ b = <<>> THEN <<>>
    ELSE LNorm(LAdd(LMulSmall(a, Head(b), 0), <<0>> \o LMul(a, Tail(b))))

\* Quotient and remainder of a by the small positive integer d (long division
\* from the top limb down).
RECURSIVE LDivSmall(_, _)
LDivSmall(a, d) ==
    IF a = <<>> THEN [q |-> <<>>, r |-> 0]
    ELSE LET hi  == LDivSmall(Tail(a), d)
             cur == hi.r * Base + Head(a)
         IN  [q |-> <<cur \div d>> \o hi.q, r |-> cur % d]

RECURSIVE BitLen(_)
BitLen(n) == IF n = 0 THEN 0 ELSE 1 + BitLen(n \div 2)

LBitLen(a) ==
    IF a = <<>> THEN 0 ELSE LimbBits * (Len(a) - 1) + BitLen(a[Len(a)])

\* a * 2^k
LShl(a, k) ==
    IF a = <<>> THEN <<>>
    ELSE [i \in 1..(k \div LimbBits) |-> 0] \o LMulSmall(a, 2^(k % LimbBits), 0)

\* a \div 2^k, and whether any bit was shifted out
LShr(a, k) ==
    LET n    == k \div LimbBits
        low  == SubSeq(a, 1, IF n < Len(a) THEN n ELSE Len(a))
        high == SubSeq(a, n + 1, Len(a))
        qr   == LDivSmall(high, 2^(k % LimbBits))
    IN  [q |-> LNorm(qr.q),
         inexact |-> qr.r # 0 \/ \E i \in 1..Len(low) : low[i] # 0]

LOdd(a) == a # <<>> /\ Head(a) % 2 = 1

\* a < b, comparing from the top limb
RECURSIVE LLessFrom(_, _, _)
LLessFrom(a, b, i) ==
    IF i = 0 THEN FALSE
    ELSE IF a[i] # b[i] THEN a[i] < b[i]
    ELSE LLessFrom(a, b, i - 1)

LLess(a, b) ==
    IF Len(a) # Len(b) THEN Len(a) < Len(b) ELSE LLessFrom(a, b, Len(a))

(***************************************************************************)
(* binary64.  A value is [m, e] for m * 2^e with m of exactly MantBits      *)
(* bits (0.0 is m = 0, e = 0), so that equal values are equal records.      *)
(***************************************************************************)
MantBits == 53

FZero == [m |-> <<>>, e |-> 0]

\* m * 2^e for m of at most MantBits bits, in the canonical form
FCanon(m, e) ==
    IF m = <<>> THEN FZero
    ELSE LET s == MantBits - LBitLen(m)
         IN  [m |-> LShl(m, s), e |-> e - s]

\* The binary64 nearest the exact value m * 2^e, ties to even.
FRound(m, e) ==
    IF LBitLen(m) <= MantBits THEN FCanon(m, e)
    ELSE LET k    == LBitLen(m) - MantBits
             t    == LShr(m, k - 1)
             kept == LShr(t.q, 1).q
             up   == LOdd(t.q) /\ (t.inexact \/ LOdd(kept))
             r    == IF up THEN LAdd(kept, <<1>>) ELSE kept
         IN  IF LBitLen(r) > MantBits
             THEN [m |-> LShr(r, 1).q, e |-> e + k + 1]
             ELSE [m |-> r, e |-> e + k]

FMin(a, b) == IF a < b THEN a ELSE b

\* x * y
FMul(x, y) == FRound(LMul(x.m, y.m), x.e + y.e)

\* x + y
FAdd(x, y) ==
    LET e == FMin(x.e, y.e)
    IN  IF x = FZero THEN y ELSE IF y = FZero THEN x
        ELSE FRound(LAdd(LShl(x.m, x.e - e), LShl(y.m, y.e - e)), e)

\* x < y, exactly
FLess(x, y) ==
    IF y = FZero THEN FALSE ELSE IF x = FZero THEN TRUE
    ELSE IF x.e # y.e THEN x.e < y.e ELSE LLess(x.m, y.m)

\* x - y for x >= y >= 0 (the only case a non-negative claim produces)
FSub(x, y) ==
    LET e == FMin(x.e, y.e)
    IN  IF y = FZero THEN x
        ELSE FRound(LSub(LShl(x.m, x.e - e), LShl(y.m, y.e - e)), e)

\* float(n) for a natural n
FFromInt(n) == FCanon(LFromNat(n), 0)

\* The binary64 nearest n / d, for naturals n and d with 0 < d < Base: what
\* a decimal literal or a JSON number with that value parses to.  n is
\* shifted far enough for the quotient to have more than RatioShift bits
\* whatever d is, so that the bit appended for a non-zero remainder always
\* lies below the rounding bit.
RatioShift == 64
FFromRatio(n, d) ==
    LET s  == RatioShift + BitLen(d)
        qr == LDivSmall(LShl(LFromNat(n), s), d)
        q2 == LShl(LNorm(qr.q), 1)
    IN  FRound(IF qr.r = 0 THEN q2 ELSE LAdd(q2, <<1>>), 0 - s - 1)

(***************************************************************************)
(* Agents, message schemas and the values the checks draw inputs from.     *)
(***************************************************************************)
ClientAddr  == "client_agent"
DamageAddr  == "damage_agent"
PaymentAddr == "payment_agent"
\* Any other agent of the network: the handlers accept a message of their
\* model from every sender.
OtherAddr   == "other_agent"

BeforeUrl == "https://example.com/before.jpg"
AfterUrl  == "https://example.com/after.jpg"
DemoPolicy == "POL-12345"
DemoClaim == 1000

Images    == {BeforeUrl, AfterUrl}
PolicyIds == {DemoPolicy, "POL-2"}
Decisions == {"full_payout", "deduct_payout", "error", "rejected", ""}

\* claim amounts: 0.00 .. MaxCents / 100 in steps of a cent, and the demo's
MaxCents == 200
Amounts == {FFromRatio(c, 100) : c \in 0..MaxCents} \cup {FFromInt(DemoClaim)}

\* random.randint(100000, 999999): the ends of the range and their
\* neighbours up to TxnSpread stand for the 900000 values
TxnLo == 100000
TxnHi == 999999
TxnSpread == 0
\* (mutant) the lower end of the range one digit short
TxnNumbers_FiveDigits == {10000 + i : i \in 0..TxnSpread} \cup {TxnHi - i : i \in 0..TxnSpread}
TxnNumbers == {TxnLo + i : i \in 0..TxnSpread} \cup {TxnHi - i : i \in 0..TxnSpread}
TxnId(n) == <<"TXN_", n>>

MaxTicks == 3

None == [none |-> TRUE]

\* A message in flight.  wf is not part of the program: it numbers the timer
\* tick (0: a request that no tick sent) whose workflow the message belongs to.
Msg(type, src, dst, wf, body) ==
    [type |-> type, src |-> src, dst |-> dst, wf |-> wf, body |-> body]

(***************************************************************************)
(* The handlers' computations.                                             *)
(***************************************************************************)
\* (mutant) the rate mistyped as 0.1
DeductionRate_Tenth == FFromRatio(1, 10)

\* the literal 0.2
DeductionRate == FFromRatio(2, 10)

\* (mutant) the equality test lost: every request is treated as damaged
VerifyDamage_AlwaysDeduct(msg) ==
    LET deduction == FMul(msg.claim_amount, FFromRatio(2, 10))
    IN  [decision        |-> "deduct_payout",
         approved_amount |-> FSub(msg.claim_amount, deduction),
         deduction       |-> deduction,
         policy_id       |-> msg.policy_id]

\* (mutant) the deduction computed but not subtracted
VerifyDamage_NoSubtract(msg) ==
    IF msg.before_image = msg.after_image
    THEN [decision        |-> "full_payout",
          approved_amount |-> msg.claim_amount,
          deduction       |-> FZero,
          policy_id       |-> msg.policy_id]
    ELSE [decision        |-> "deduct_payout",
          approved_amount |-> msg.claim_amount,
          deduction       |-> FMul(msg.claim_amount, FFromRatio(2, 10)),
          policy_id       |-> msg.policy_id]

\* (mutant) a third outcome: equal images and nothing claimed is an error
VerifyDamage_ErrorOnZeroClaim(msg) ==
    IF msg.before_image = msg.after_image
    THEN [decision        |-> IF msg.claim_amount = FZero
                              THEN "error" ELSE "full_payout",
          approved_amount |-> msg.claim_amount,
          deduction       |-> FZero,
          policy_id       |-> msg.policy_id]
    ELSE LET deduction == FMul(msg.claim_amount, DeductionRate)
         IN  [decision        |-> "deduct_payout",
              approved_amount |-> FSub(msg.claim_amount, deduction),
              deduction       |-> deduction,
              policy_id       |-> msg.policy_id]

\* (mutant) the deduction added to the claim
VerifyDamage_AddsDeduction(msg) ==
    IF msg.before_image = msg.after_image
    THEN [decision        |-> "full_payout",
          approved_amount |-> msg.claim_amount,
          deduction       |-> FZero,
          policy_id       |-> msg.policy_id]
    ELSE LET deduction == FMul(msg.claim_amount, DeductionRate)
         IN  [decision        |-> "deduct_payout",
              approved_amount |-> FAdd(msg.claim_amount, deduction),
              deduction       |-> deduction,
              policy_id       |-> msg.policy_id]

\* verify_damage: the DamageResponse for DamageRequest msg
VerifyDamage(msg) ==
    IF msg.before_image = msg.after_image
    THEN [decision        |-> "full_payout",
          approved_amount |-> msg.claim_amount,
          deduction       |-> FZero,
          policy_id       |-> msg.policy_id]
    ELSE LET deduction == FMul(msg.claim_amount, DeductionRate)
         IN  [decision        |-> "deduct_payout",
              approved_amount |-> FSub(msg.claim_amount, deduction),
              deduction       |-> deduction,
              policy_id       |-> msg.policy_id]

\* (mutant) deduct_payout falls through to the branch that pays nothing
ProcessPayment_DeductPaysNothing(msg, n) ==
    [policy_id      |-> msg.policy_id,
     decision       |-> msg.decision,
     paid_amount    |-> IF msg.decision = "full_payout"
                        THEN msg.approved_amount ELSE FZero,
     transaction_id |-> TxnId(n),
     status         |-> CASE msg.decision = "full_payout"   -> "completed"
                          [] msg.decision = "deduct_payout" -> "completed"
                          [] msg.decision = "error"         -> "failed"
                          [] OTHER                          -> "rejected"]

\* (mutant) the "error" branch missing, and the fallback paying the amount
ProcessPayment_NoErrorBranch(msg, n) ==
    [policy_id      |-> msg.policy_id,
     decision       |-> msg.decision,
     paid_amount    |-> msg.approved_amount,
     transaction_id |-> TxnId(n),
     status         |-> IF msg.decision \in {"full_payout", "deduct_payout"}
                        THEN "completed" ELSE "rejected"]

\* process_payment: the PaymentResponse for PaymentRequest msg, n being the
\* number random.randint returned
ProcessPayment(msg, n) ==
    LET paid_amount == IF msg.decision \in {"full_payout", "deduct_payout"}
                       THEN msg.approved_amount ELSE FZero
        status == CASE msg.decision = "full_payout"   -> "completed"
                    [] msg.decision = "deduct_payout" -> "completed"
                    [] msg.decision = "error"         -> "failed"
                    [] OTHER                          -> "rejected"
    IN  [policy_id      |-> msg.policy_id,
         decision       |-> msg.decision,
         paid_amount    |-> paid_amount,
         transaction_id |-> TxnId(n),
         status         |-> status]

\* (mutant) the policy id taken from the demo constant, not from the message
PaymentRequestFor_DemoPolicy(msg) ==
    [decision        |-> msg.decision,
     approved_amount |-> msg.approved_amount,
     policy_id       |-> DemoPolicy]

\* (mutant) the wrong amount field forwarded
PaymentRequestFor_SendsDeduction(msg) ==
    [decision        |-> msg.decision,
     approved_amount |-> msg.deduction,
     policy_id       |-> msg.policy_id]

\* handle_damage_response: the PaymentRequest built from DamageResponse msg
PaymentRequestFor(msg) ==
    [decision        |-> msg.decision,
     approved_amount |-> msg.approved_amount,
     policy_id       |-> msg.policy_id]

\* initiate_deposit_refund: the hardcoded DamageRequest
DemoRequest ==
    [before_image |-> BeforeUrl,
     after_image  |-> AfterUrl,
     claim_amount |-> FFromInt(DemoClaim),
     policy_id    |-> DemoPolicy]

\* (mutant) the summary without the transaction id
Summary_NoTransactionId(msg) ==
    [policy_id      |-> msg.policy_id,
     status         |-> msg.status,
     paid_amount    |-> msg.paid_amount,
     transaction_id |-> <<>>]

\* handle_payment_response: the four printed lines
Summary(msg) ==
    [policy_id      |-> msg.policy_id,
     status         |-> msg.status,
     paid_amount    |-> msg.paid_amount,
     transaction_id |-> msg.transaction_id]

(***************************************************************************)
(* State.                                                                  *)
(*   net              messages sent and not yet delivered                  *)
(*   damage_response  client.py's global                                   *)
(*   payment_response client.py's global                                   *)
(*   printed          the summaries printed, in order, each with its wf    *)
(*   ticks            timer ticks fired so far                             *)
(*   sent, delivered, lost   history: every message ever sent, handed to   *)
(*                    its handler, lost in transit                         *)
(*   stored_wf        history: the workflow whose response each global     *)
(*                    holds (NoWf while it holds None)                     *)
(***************************************************************************)
VARIABLES net, damage_response, payment_response, printed, ticks,
          sent, delivered, lost, stored_wf

agentVars == <<net, damage_response, payment_response, printed, ticks,
               sent, delivered, lost, stored_wf>>

NoWf == -1
NothingStored == [damage |-> NoWf, payment |-> NoWf]

(***************************************************************************)
(* run_system.py, the supervisor.                                          *)
(*   pc              where main() is                                       *)
(*   agent_seed      os.getenv("AGENT_SEED") after load_dotenv()           *)
(*   processes       main's list of tracked processes, by service name     *)
(*   damage_process, payment_process   what run_agent returned             *)
(*   child           each service's process: "none" (never created),       *)
(*                   "running" or "exited"                                 *)
(*   reports         the lines printed so far                              *)
(*   idx             position in processes of the for loop that is running *)
(*                   (the polling loop, then the shutdown loop)            *)
(*   waited          time units process.wait(timeout=5) has waited         *)
(*   exit_code       None while main() runs                                *)
(***************************************************************************)
VARIABLES pc, agent_seed, processes, damage_process, payment_process,
          child, reports, idx, waited, exit_code

supVars == <<pc, agent_seed, processes, damage_process, payment_process,
             child, reports, idx, waited, exit_code>>

vars == <<agentVars, supVars>>

Services == {"DamageVerifier", "PaymentProcessor"}
\* what os.getenv returns: None, or the string the variable holds
Unset == [set |-> FALSE, value |-> ""]
EnvStr(s) == [set |-> TRUE, value |-> s]
SeedPhrase == EnvStr("seed phrase")
EnvValues == {Unset, EnvStr(""), SeedPhrase}

\* the Popen object of a started child; the status main() ends with
Popen(name) == [name |-> name]
Exit(code) == [code |-> code]

\* main() about to start, no child process created
SupStart ==
    /\ pc = "check_env"
    /\ processes = <<>>
    /\ damage_process = None
    /\ payment_process = None
    /\ child = [n \in Services |-> "none"]
    /\ reports = {}
    /\ idx = 0
    /\ waited = 0
    /\ exit_code = None

Init ==
    /\ net = {}
    /\ damage_response = None
    /\ payment_response = None
    /\ stored_wf = NothingStored
    /\ printed = <<>>
    /\ ticks = 0
    /\ sent = {}
    /\ delivered = {}
    /\ lost = {}
    /\ SupStart /\ agent_seed = SeedPhrase

\* ctx.send(dst, body) by the handler of message m (its reply or its next hop)
Deliver(m, out) ==
    /\ net' = (net \ {m}) \cup out
    /\ sent' = sent \cup out
    /\ delivered' = delivered \cup {m}
    /\ UNCHANGED lost
    /\ UNCHANGED supVars

\* A workflow is the chain of messages one tick starts; it is finished when
\* its summary is printed.
Finished(w) == \E i \in 1..Len(printed) : printed[i].wf = w
Idle == \A w \in 1..ticks : Finished(w)

\* (mutant) the tick guarded by a state machine: it sends only when no
\* workflow is awaiting a response
Tick_OnlyIfIdle ==
    /\ Idle
    /\ ticks < MaxTicks
    /\ ticks' = ticks + 1
    /\ LET m == Msg("DamageRequest", ClientAddr, DamageAddr, ticks + 1, DemoRequest)
       IN  /\ net' = net \cup {m}
           /\ sent' = sent \cup {m}
    /\ UNCHANGED <<stored_wf, damage_response, payment_response, printed, delivered, lost>>
    /\ UNCHANGED supVars

\* (mutant) a retry: a tick may instead send again the DamageRequest of a
\* workflow whose DamageResponse was lost
Tick_WithRetry ==
    \/ /\ ticks < MaxTicks
       /\ ticks' = ticks + 1
       /\ LET m == Msg("DamageRequest", ClientAddr, DamageAddr, ticks + 1, DemoRequest)
          IN  /\ net' = net \cup {m}
              /\ sent' = sent \cup {m}
       /\ UNCHANGED <<stored_wf, damage_response, payment_response, printed, delivered, lost>>
       /\ UNCHANGED supVars
    \/ \E l \in lost :
          /\ l.type = "DamageResponse"
          /\ LET m == Msg("DamageRequest", ClientAddr, DamageAddr, l.wf, DemoRequest)
             IN  /\ m \notin net
                 /\ net' = net \cup {m}
                 /\ sent' = sent \cup {m}
          /\ UNCHANGED <<stored_wf, damage_response, payment_response, printed, ticks,
                         delivered, lost>>
          /\ UNCHANGED supVars

\* client.py: on_interval(period=10.0).  No guard: every tick sends.
Tick ==
    /\ ticks < MaxTicks
    /\ ticks' = ticks + 1
    /\ LET m == Msg("DamageRequest", ClientAddr, DamageAddr, ticks + 1, DemoRequest)
       IN  /\ net' = net \cup {m}
           /\ sent' = sent \cup {m}
    /\ UNCHANGED <<stored_wf, damage_response, payment_response, printed, delivered, lost>>
    /\ UNCHANGED supVars

\* (mutant) the answer goes to the orchestrator, whoever asked
verify_damage_RepliesToClient ==
    \E m \in net :
        /\ m.type = "DamageRequest" /\ m.dst = DamageAddr
        /\ Deliver(m, {Msg("DamageResponse", DamageAddr, ClientAddr, m.wf,
                           VerifyDamage(m.body))})
        /\ UNCHANGED <<stored_wf, damage_response, payment_response, printed, ticks>>

\* damage_verifier.py: on_message(model=DamageRequest)
verify_damage ==
    \E m \in net :
        /\ m.type = "DamageRequest" /\ m.dst = DamageAddr
        /\ Deliver(m, {Msg("DamageResponse", DamageAddr, m.src, m.wf,
                           VerifyDamage(m.body))})
        /\ UNCHANGED <<stored_wf, damage_response, payment_response, printed, ticks>>

\* payment_processor.py: on_message(model=PaymentRequest)
process_payment ==
    \E m \in net, n \in TxnNumbers :
        /\ m.type = "PaymentRequest" /\ m.dst = PaymentAddr
        /\ Deliver(m, {Msg("PaymentResponse", PaymentAddr, m.src, m.wf,
                           ProcessPayment(m.body, n))})
        /\ UNCHANGED <<stored_wf, damage_response, payment_response, printed, ticks>>

\* (mutant) the PaymentRequest is built from the global as it was when the
\* message arrived
handle_damage_response_FromGlobal ==
    \E m \in net :
        /\ m.type = "DamageResponse" /\ m.dst = ClientAddr
        /\ damage_response' = m.body
        /\ stored_wf' = [stored_wf EXCEPT !.damage = m.wf]
        /\ Deliver(m, {Msg("PaymentRequest", ClientAddr, PaymentAddr, m.wf,
                           PaymentRequestFor(IF damage_response = None
                                             THEN m.body
                                             ELSE damage_response))})
        /\ UNCHANGED <<payment_response, printed, ticks>>

\* (mutant) the global keeps the first DamageResponse stored in it
handle_damage_response_KeepsFirst ==
    \E m \in net :
        /\ m.type = "DamageResponse" /\ m.dst = ClientAddr
        /\ IF damage_response = None
           THEN /\ damage_response' = m.body
                /\ stored_wf' = [stored_wf EXCEPT !.damage = m.wf]
           ELSE UNCHANGED <<damage_response, stored_wf>>
        /\ Deliver(m, {Msg("PaymentRequest", ClientAddr, PaymentAddr, m.wf,
                           PaymentRequestFor(m.body))})
        /\ UNCHANGED <<payment_response, printed, ticks>>

\* client.py: on_message(model=DamageResponse)
handle_damage_response ==
    \E m \in net :
        /\ m.type = "DamageResponse" /\ m.dst = ClientAddr
        /\ damage_response' = m.body
        /\ stored_wf' = [stored_wf EXCEPT !.damage = m.wf]
        /\ Deliver(m, {Msg("PaymentRequest", ClientAddr, PaymentAddr, m.wf,
                           PaymentRequestFor(m.body))})
        /\ UNCHANGED <<payment_response, printed, ticks>>

\* client.py: on_message(model=PaymentResponse)
handle_payment_response ==
    \E m \in net :
        /\ m.type = "PaymentResponse" /\ m.dst = ClientAddr
        /\ payment_response' = m.body
        /\ stored_wf' = [stored_wf EXCEPT !.payment = m.wf]
        /\ printed' = Append(printed, [wf |-> m.wf, out |-> Summary(m.body)])
        /\ Deliver(m, {})
        /\ UNCHANGED <<damage_response, ticks>>

\* The transport drops a message (or its sender died before sending it).
Lose ==
    \E m \in net :
        /\ net' = net \ {m}
        /\ lost' = lost \cup {m}
        /\ UNCHANGED <<stored_wf, damage_response, payment_response, printed, ticks,
                       sent, delivered>>
        /\ UNCHANGED supVars

Next ==
    \/ Tick
    \/ verify_damage
    \/ handle_damage_response
    \/ process_payment
    \/ handle_payment_response
    \/ Lose

\* The three agents running, the timer firing, messages possibly lost.
Spec == Init /\ [][Next]_vars

\* The three agents with loss-free delivery: no message is dropped, and a
\* handler with a message waiting for it eventually runs.
NextLive ==
    \/ Tick
    \/ verify_damage
    \/ handle_damage_response
    \/ process_payment
    \/ handle_payment_response

\* A step of the handler of message type t, seen in the history of
\* deliveries: verify_damage for "DamageRequest", handle_damage_response for
\* "DamageResponse", process_payment for "PaymentRequest" and
\* handle_payment_response for "PaymentResponse".  Every step of NextLive
\* that hands over a message of type t is a step of that handler, and the
\* handler is enabled exactly when such a message waits in net.
Handles(t) == \E m \in net : m.type = t /\ delivered' = delivered \cup {m}

MsgTypes == {"DamageRequest", "DamageResponse", "PaymentRequest", "PaymentResponse"}

\* weak fairness of every handler
Fairness == \A t \in MsgTypes : WF_delivered(Handles(t))

SpecLive == Init /\ [][NextLive]_vars /\ Fairness

(***************************************************************************)
(* The handlers on arbitrary input: one message with field values drawn    *)
(* from the sets above is sent to its handler, and the handlers run on it   *)
(* and on what they send in turn.                                           *)
(***************************************************************************)
DamageRequests ==
    [before_image : Images, after_image : Images,
     claim_amount : Amounts, policy_id : PolicyIds]

PaymentRequests ==
    [decision : Decisions, approved_amount : Amounts, policy_id : PolicyIds]

\* DamageResponses that verify_damage did not produce: handle_damage_response
\* accepts them all the same.
DamageResponses ==
    [decision : Decisions, approved_amount : Amounts,
     deduction : {FZero}, policy_id : PolicyIds]

Inputs ==
    {Msg("DamageRequest", s, DamageAddr, 0, b) :
        s \in {ClientAddr, OtherAddr}, b \in DamageRequests}
    \cup
    {Msg("PaymentRequest", s, PaymentAddr, 0, b) :
        s \in {ClientAddr, OtherAddr}, b \in PaymentRequests}
    \cup
    {Msg("DamageResponse", OtherAddr, ClientAddr, 0, b) : b \in DamageResponses}

InitHandlers ==
    /\ net \in {{m} : m \in Inputs}
    /\ sent = net
    /\ damage_response = None
    /\ payment_response = None
    /\ stored_wf = NothingStored
    /\ printed = <<>>
    /\ ticks = 0
    /\ delivered = {}
    /\ lost = {}
    /\ SupStart /\ agent_seed = SeedPhrase

NextHandlers ==
    \/ verify_damage
    \/ handle_damage_response
    \/ process_payment
    \/ handle_payment_response

SpecHandlers == InitHandlers /\ [][NextHandlers]_vars

(***************************************************************************)
(* The Payment Processor serving several requests: MaxPayments             *)
(* PaymentRequests from the orchestrator, their decisions drawn, are in     *)
(* flight at the start.                                                     *)
(***************************************************************************)
MaxPayments == 2

PaymentBatches ==
    [1..MaxPayments -> [decision : Decisions,
                        approved_amount : {FFromInt(DemoClaim)},
                        policy_id : {DemoPolicy}]]

InitPayments ==
    /\ net \in {{Msg("PaymentRequest", ClientAddr, PaymentAddr, w, b[w]) :
                    w \in 1..MaxPayments} : b \in PaymentBatches}
    /\ sent = net
    /\ damage_response = None
    /\ payment_response = None
    /\ stored_wf = NothingStored
    /\ printed = <<>>
    /\ ticks = 0
    /\ delivered = {}
    /\ lost = {}
    /\ SupStart /\ agent_seed = SeedPhrase

NextPayments ==
    \/ process_payment
    \/ handle_payment_response

SpecPayments == InitPayments /\ [][NextPayments]_vars

(***************************************************************************)
(* Overlapping workflows that differ: MaxOverlap DamageRequests of the     *)
(* orchestrator are in flight at once, their policy ids and images drawn,   *)
(* and the handlers run on them in any order.                               *)
(***************************************************************************)
MaxOverlap == 2

OverlapRequests ==
    [before_image : {BeforeUrl}, after_image : Images,
     claim_amount : {FFromInt(DemoClaim)}, policy_id : PolicyIds]

InitOverlap ==
    /\ net \in {{Msg("DamageRequest", ClientAddr, DamageAddr, w, b[w]) :
                    w \in 1..MaxOverlap} : b \in [1..MaxOverlap -> OverlapRequests]}
    /\ sent = net
    /\ damage_response = None
    /\ payment_response = None
    /\ stored_wf = NothingStored
    /\ printed = <<>>
    /\ ticks = 0
    /\ delivered = {}
    /\ lost = {}
    /\ SupStart /\ agent_seed = SeedPhrase

SpecOverlap == InitOverlap /\ [][NextHandlers]_vars

(***************************************************************************)
(* run_system.py: the supervisor and the two child processes it launches.  *)
(***************************************************************************)
WaitTimeout == 5

\* (mutant) only an unset variable counts as missing
EnvSet_EmptyCounts(v) == v.set

\* check_env_vars: "not os.getenv(var)" is true of None and of ""
EnvSet(v) == v.set /\ v.value # ""

\* (mutant) whatever run_agent returned is tracked
Track_Always(procs, p, name) == Append(procs, name)

\* main: "if damage_process: processes.append((name, damage_process))"
Track(procs, p, name) == IF p # None THEN Append(procs, name) ELSE procs

\* Where main() is: pc names the statement about to run.  The statements of
\* main() inside "try:", and of run_agent called from there, where
\* KeyboardInterrupt is caught by main:
TryBlock == {"launch_damage", "print_started_damage", "return_damage",
             "track_damage",
             "launch_payment", "print_started_payment", "return_payment",
             "track_payment", "polling", "poll"}

\* check_env_vars: the message is printed and the function returns
check_env_vars ==
    /\ pc = "check_env"
    /\ reports' = reports \cup
          {IF EnvSet(agent_seed) THEN <<"env_ok">> ELSE <<"missing", "AGENT_SEED">>}
    /\ pc' = "checked"
    /\ UNCHANGED <<agent_seed, processes, damage_process, payment_process,
                   child, idx, waited, exit_code>>
    /\ UNCHANGED agentVars

\* main: "if not check_env_vars(): sys.exit(1)"
sys_exit ==
    /\ pc = "checked"
    /\ <<"missing", "AGENT_SEED">> \in reports
    /\ pc' = "exited"
    /\ exit_code' = Exit(1)
    /\ UNCHANGED <<agent_seed, processes, damage_process, payment_process,
                   child, reports, idx, waited>>
    /\ UNCHANGED agentVars

\* main: check_env_vars returned True; "processes = []", "try:"
enter_try ==
    /\ pc = "checked"
    /\ <<"env_ok">> \in reports
    /\ processes' = <<>>
    /\ pc' = "launch_damage"
    /\ UNCHANGED <<agent_seed, damage_process, payment_process,
                   child, reports, idx, waited, exit_code>>
    /\ UNCHANGED agentVars

\* run_agent: Popen starts the child; or it raises, the failure is printed
\* and None is returned
run_agent(name, at, started, failed, ok) ==
    /\ pc = at
    /\ IF ok
       THEN /\ child' = [child EXCEPT ![name] = "running"]
            /\ pc' = started
            /\ UNCHANGED reports
       ELSE /\ reports' = reports \cup {<<"failed", name>>}
            /\ pc' = failed
            /\ UNCHANGED child
    /\ UNCHANGED <<agent_seed, processes, damage_process, payment_process,
                   idx, waited, exit_code>>
    /\ UNCHANGED agentVars

\* run_agent: "{agent_name} started with PID ..."
print_started(name, at, then) ==
    /\ pc = at
    /\ reports' = reports \cup {<<"started", name>>}
    /\ pc' = then
    /\ UNCHANGED <<agent_seed, processes, damage_process, payment_process,
                   child, idx, waited, exit_code>>
    /\ UNCHANGED agentVars

launch_damage ==
    \E ok \in BOOLEAN :
        run_agent("DamageVerifier", "launch_damage", "print_started_damage",
                  "track_damage", ok)

print_started_damage ==
    print_started("DamageVerifier", "print_started_damage", "return_damage")

\* "return process", and main's "damage_process = run_agent(...)"
return_damage ==
    /\ pc = "return_damage"
    /\ damage_process' = Popen("DamageVerifier")
    /\ pc' = "track_damage"
    /\ UNCHANGED <<agent_seed, processes, payment_process, child,
                   reports, idx, waited, exit_code>>
    /\ UNCHANGED agentVars

\* "if damage_process: processes.append(...)" and time.sleep(2)
track_damage ==
    /\ pc = "track_damage"
    /\ processes' = Track(processes, damage_process, "DamageVerifier")
    /\ pc' = "launch_payment"
    /\ UNCHANGED <<agent_seed, damage_process, payment_process, child,
                   reports, idx, waited, exit_code>>
    /\ UNCHANGED agentVars

launch_payment ==
    \E ok \in BOOLEAN :
        run_agent("PaymentProcessor", "launch_payment", "print_started_payment",
                  "track_payment", ok)

print_started_payment ==
    print_started("PaymentProcessor", "print_started_payment", "return_payment")

\* "return process", and main's "payment_process = run_agent(...)"
return_payment ==
    /\ pc = "return_payment"
    /\ payment_process' = Popen("PaymentProcessor")
    /\ pc' = "track_payment"
    /\ UNCHANGED <<agent_seed, processes, damage_process, child,
                   reports, idx, waited, exit_code>>
    /\ UNCHANGED agentVars

\* "if payment_process: processes.append(...)", time.sleep(2), the banner
track_payment ==
    /\ pc = "track_payment"
    /\ processes' = Track(processes, payment_process, "PaymentProcessor")
    /\ pc' = "polling"
    /\ UNCHANGED <<agent_seed, damage_process, payment_process, child,
                   reports, idx, waited, exit_code>>
    /\ UNCHANGED agentVars

\* "while True: time.sleep(1)", and the for loop over processes begins
polling ==
    /\ pc = "polling"
    /\ idx' = 1
    /\ pc' = "poll"
    /\ UNCHANGED <<agent_seed, processes, damage_process, payment_process,
                   child, reports, waited, exit_code>>
    /\ UNCHANGED agentVars

\* one iteration of the for loop: "if process.poll() is not None: print(...
\* has stopped unexpectedly)"; after the last one, back to the sleep
poll ==
    /\ pc = "poll"
    /\ IF idx <= Len(processes)
       THEN /\ reports' = reports \cup
                  (IF child[processes[idx]] = "exited"
                   THEN {<<"unexpected", processes[idx]>>} ELSE {})
            /\ idx' = idx + 1
            /\ UNCHANGED pc
       ELSE /\ pc' = "polling"
            /\ UNCHANGED <<reports, idx>>
    /\ UNCHANGED <<agent_seed, processes, damage_process, payment_process,
                   child, waited, exit_code>>
    /\ UNCHANGED agentVars

\* A child process ends: on its own, or on the SIGTERM sent to it.
child_exits ==
    \E n \in Services :
        /\ child[n] = "running"
        /\ child' = [child EXCEPT ![n] = "exited"]
        /\ UNCHANGED <<pc, agent_seed, processes, damage_process,
                       payment_process, reports, idx, waited, exit_code>>
        /\ UNCHANGED agentVars

\* Ctrl+C.  Inside "try:" it is caught by "except KeyboardInterrupt";
\* anywhere else (before "try:", or in the except block itself) nothing
\* catches it and main() is over.
Interrupt ==
    /\ exit_code = None
    /\ IF pc \in TryBlock
       THEN /\ pc' = "caught"
            /\ UNCHANGED exit_code
       ELSE /\ pc' = "exited"
            /\ exit_code' = Exit(130)
    /\ UNCHANGED <<agent_seed, processes, damage_process, payment_process,
                   child, reports, idx, waited>>
    /\ UNCHANGED agentVars

\* the except block: "Shutting down agents...", the loop begins
shutting_down ==
    /\ pc = "caught"
    /\ reports' = reports \cup {<<"shutting_down">>}
    /\ idx' = 1
    /\ pc' = "stopping"
    /\ UNCHANGED <<agent_seed, processes, damage_process, payment_process,
                   child, waited, exit_code>>
    /\ UNCHANGED agentVars

\* the shutdown loop: "Stopping {name}", process.terminate()
terminate ==
    /\ pc = "stopping"
    /\ idx <= Len(processes)
    /\ reports' = reports \cup {<<"stopping", processes[idx]>>}
    /\ waited' = 0
    /\ pc' = "waiting"
    /\ UNCHANGED <<agent_seed, processes, damage_process, payment_process,
                   child, idx, exit_code>>
    /\ UNCHANGED agentVars

\* process.wait(timeout=5): a time unit passes, the child still running
wait_tick ==
    /\ pc = "waiting"
    /\ child[processes[idx]] = "running"
    /\ waited < WaitTimeout
    /\ waited' = waited + 1
    /\ UNCHANGED <<pc, agent_seed, processes, damage_process, payment_process,
                   child, reports, idx, exit_code>>
    /\ UNCHANGED agentVars

\* process.wait(timeout=5) returns: the child has exited
wait_returns ==
    /\ pc = "waiting"
    /\ child[processes[idx]] = "exited"
    /\ reports' = reports \cup {<<"stopped", processes[idx]>>}
    /\ idx' = idx + 1
    /\ pc' = "stopping"
    /\ UNCHANGED <<agent_seed, processes, damage_process, payment_process,
                   child, waited, exit_code>>
    /\ UNCHANGED agentVars

\* TimeoutExpired is raised and caught: "Force killing {name}..."
timeout_expired ==
    /\ pc = "waiting"
    /\ child[processes[idx]] = "running"
    /\ waited = WaitTimeout
    /\ reports' = reports \cup {<<"force_kill", processes[idx]>>}
    /\ pc' = "killing"
    /\ UNCHANGED <<agent_seed, processes, damage_process, payment_process,
                   child, idx, waited, exit_code>>
    /\ UNCHANGED agentVars

\* (mutant) the child is not killed and not waited for
force_kill_NoKill ==
    /\ pc = "killing"
    /\ idx' = idx + 1
    /\ pc' = "stopping"
    /\ UNCHANGED <<agent_seed, processes, damage_process, payment_process,
                   child, reports, waited, exit_code>>
    /\ UNCHANGED agentVars

\* process.kill(), process.wait()
force_kill ==
    /\ pc = "killing"
    /\ child' = [child EXCEPT ![processes[idx]] = "exited"]
    /\ idx' = idx + 1
    /\ pc' = "stopping"
    /\ UNCHANGED <<agent_seed, processes, damage_process, payment_process,
                   reports, waited, exit_code>>
    /\ UNCHANGED agentVars

\* the loop is over: "All agents stopped"
all_stopped ==
    /\ pc = "stopping"
    /\ idx > Len(processes)
    /\ reports' = reports \cup {<<"all_stopped">>}
    /\ pc' = "returning"
    /\ UNCHANGED <<agent_seed, processes, damage_process, payment_process,
                   child, idx, waited, exit_code>>
    /\ UNCHANGED agentVars

\* main() returns and the interpreter exits
main_returns ==
    /\ pc = "returning"
    /\ pc' = "exited"
    /\ exit_code' = Exit(0)
    /\ UNCHANGED <<agent_seed, processes, damage_process, payment_process,
                   child, reports, idx, waited>>
    /\ UNCHANGED agentVars

InitSupervisor ==
    /\ SupStart
    /\ agent_seed \in EnvValues
    /\ net = {}
    /\ damage_response = None
    /\ payment_response = None
    /\ stored_wf = NothingStored
    /\ printed = <<>>
    /\ ticks = 0
    /\ sent = {}
    /\ delivered = {}
    /\ lost = {}

NextSupervisor ==
    \/ check_env_vars
    \/ sys_exit
    \/ enter_try
    \/ launch_damage
    \/ print_started_damage
    \/ return_damage
    \/ track_damage
    \/ launch_payment
    \/ print_started_payment
    \/ return_payment
    \/ track_payment
    \/ polling
    \/ poll
    \/ child_exits
    \/ Interrupt
    \/ shutting_down
    \/ terminate
    \/ wait_tick
    \/ wait_returns
    \/ timeout_expired
    \/ force_kill
    \/ all_stopped
    \/ main_returns

SpecSupervisor == InitSupervisor /\ [][NextSupervisor]_vars

(***************************************************************************)
(* Properties.                                                             *)
(***************************************************************************)
\* r is the DamageResponse verify_damage sent for DamageRequest q
AnswersDamage(r, q) ==
    /\ q \in sent /\ q.type = "DamageRequest" /\ q.dst = DamageAddr
    /\ r \in sent /\ r.type = "DamageResponse" /\ r.src = DamageAddr
    /\ r.wf = q.wf /\ r.dst = q.src

\* r is the PaymentResponse process_payment sent for PaymentRequest q
AnswersPayment(r, q) ==
    /\ q \in sent /\ q.type = "PaymentRequest" /\ q.dst = PaymentAddr
    /\ r \in sent /\ r.type = "PaymentResponse" /\ r.src = PaymentAddr
    /\ r.wf = q.wf /\ r.dst = q.src

\* |5 * d - x| <= 5 * 2^(d.e): d is x / 5 to within one unit in the last
\* place of d, computed exactly
WithinUlpOfFifth(d, x) ==
    IF x = FZero \/ d = FZero THEN d = x
    ELSE LET e    == FMin(d.e, x.e)
             five == LShl(LMulSmall(d.m, 5, 0), d.e - e)
             one  == LShl(x.m, x.e - e)
             diff == IF LLess(five, one) THEN LSub(one, five) ELSE LSub(five, one)
             tol  == LShl(<<5>>, d.e - e)
         IN  ~LLess(tol, diff)

\* C1: every DamageRequest with before_image = after_image is answered with
\* decision full_payout, deduction 0 and approved_amount = claim_amount.
C1_EqualImagesFullPayout ==
    \A q \in sent, r \in sent :
        AnswersDamage(r, q) /\ q.body.before_image = q.body.after_image
        => /\ r.body.decision = "full_payout"
           /\ r.body.deduction = FZero
           /\ r.body.approved_amount = q.body.claim_amount

C1_Witness ==
    \E q \in sent, r \in sent :
        /\ AnswersDamage(r, q)
        /\ q.body.before_image = q.body.after_image
        /\ q.body.claim_amount = FFromRatio(189, 100)
        /\ r.body.approved_amount = FFromRatio(189, 100)

\* C2: every DamageRequest with before_image # after_image is answered with
\* decision deduct_payout, deduction = claim_amount * 0.2 (the binary64
\* product, which is a fifth of claim_amount to within one unit in the last
\* place) and approved_amount = claim_amount - deduction (the binary64
\* difference).
C2_DifferentImagesDeduct ==
    \A q \in sent, r \in sent :
        AnswersDamage(r, q) /\ q.body.before_image # q.body.after_image
        => /\ r.body.decision = "deduct_payout"
           /\ r.body.deduction = FMul(q.body.claim_amount, FFromRatio(2, 10))
           /\ WithinUlpOfFifth(r.body.deduction, q.body.claim_amount)
           /\ r.body.approved_amount = FSub(q.body.claim_amount, r.body.deduction)

C2_Witness ==
    \E q \in sent, r \in sent :
        /\ AnswersDamage(r, q)
        /\ q.body.before_image # q.body.after_image
        /\ q.body.claim_amount = FFromRatio(190, 100)
        /\ r.body.deduction = FFromRatio(38, 100)
        /\ r.body.approved_amount = FFromRatio(152, 100)

\* C3: approved_amount + deduction = claim_amount for every DamageResponse
\* and the DamageRequest it answers (the sum as the interpreter computes it).
C3_ApprovedPlusDeductionIsClaim ==
    \A q \in sent, r \in sent :
        AnswersDamage(r, q)
        => FAdd(r.body.approved_amount, r.body.deduction) = q.body.claim_amount

\* C4: a PaymentRequest with decision full_payout or deduct_payout is
\* answered with status completed and paid_amount = approved_amount.
C4_PayoutCompleted ==
    \A q \in sent, r \in sent :
        AnswersPayment(r, q) /\ q.body.decision \in {"full_payout", "deduct_payout"}
        => /\ r.body.status = "completed"
           /\ r.body.paid_amount = q.body.approved_amount

C4_Witness ==
    \E q \in sent, r \in sent :
        /\ AnswersPayment(r, q)
        /\ q.body.decision = "deduct_payout"
        /\ q.body.approved_amount = FFromRatio(120, 100)
        /\ r.body.paid_amount = FFromRatio(120, 100)

\* C5: a PaymentRequest with any other decision is answered with
\* paid_amount 0 whatever its approved_amount, with status failed when the
\* decision is "error" and rejected otherwise.
C5_OtherDecisionsPayNothing ==
    \A q \in sent, r \in sent :
        AnswersPayment(r, q) /\ q.body.decision \notin {"full_payout", "deduct_payout"}
        => /\ r.body.paid_amount = FZero
           /\ (r.body.status = "failed") = (q.body.decision = "error")
           /\ q.body.decision # "error" => r.body.status = "rejected"

C5_Witness ==
    \E q \in sent, r \in sent :
        /\ AnswersPayment(r, q)
        /\ q.body.decision = "error"
        /\ q.body.approved_amount = FFromInt(DemoClaim)
        /\ r.body.status = "failed"

\* C6: every message of a workflow (DamageResponse, PaymentRequest,
\* PaymentResponse) and its printed summary carry the policy_id of the
\* DamageRequest that started it.
C6_PolicyIdCarried ==
    \A q \in sent :
        q.type = "DamageRequest"
        => /\ \A m \in sent : m.wf = q.wf => m.body.policy_id = q.body.policy_id
           /\ \A i \in 1..Len(printed) :
                  printed[i].wf = q.wf => printed[i].out.policy_id = q.body.policy_id

C6_Witness ==
    \E q \in sent :
        /\ q.type = "DamageRequest" /\ q.body.policy_id = "POL-2"
        /\ \A t \in {"DamageResponse", "PaymentRequest", "PaymentResponse"} :
               \E m \in sent : m.type = t /\ m.wf = q.wf
        /\ \E i \in 1..Len(printed) : printed[i].wf = q.wf

\* C7: with claim_amount 1000, equal images give the DamageResponse
\* {full_payout, 1000, 0} and then the PaymentResponse {completed, 1000};
\* different images (the demo request's) give {deduct_payout, 800, 200} and
\* then {completed, 800}.
C7_EndToEnd1000 ==
    /\ DemoRequest.claim_amount = FFromInt(1000)
    /\ DemoRequest.before_image # DemoRequest.after_image
    /\ \A q \in sent :
        q.type = "DamageRequest" /\ q.body.claim_amount = FFromInt(1000)
        => LET same == q.body.before_image = q.body.after_image
               pay  == FFromInt(IF same THEN 1000 ELSE 800)
           IN  /\ \A r \in sent :
                      AnswersDamage(r, q)
                      => /\ r.body.decision =
                                (IF same THEN "full_payout" ELSE "deduct_payout")
                         /\ r.body.approved_amount = pay
                         /\ r.body.deduction = FFromInt(IF same THEN 0 ELSE 200)
               /\ \A r \in sent :
                      r.type = "PaymentResponse" /\ r.wf = q.wf
                      => /\ r.body.status = "completed"
                         /\ r.body.paid_amount = pay

C7_Witness ==
    \E q \in sent, r \in sent :
        /\ q.type = "DamageRequest" /\ q.body.claim_amount = FFromInt(1000)
        /\ q.body.before_image = q.body.after_image
        /\ r.type = "PaymentResponse" /\ r.wf = q.wf
        /\ r.body.paid_amount = FFromInt(1000)
        /\ r \in delivered

\* C8: the step in which the orchestrator receives a DamageResponse sends
\* exactly one message, a PaymentRequest to the Payment Processor with the
\* decision, approved_amount and policy_id of that DamageResponse.
C8_OnePaymentRequestPerDamageResponse ==
    [][\A m \in delivered' \ delivered :
          m.type = "DamageResponse" /\ m.dst = ClientAddr
          => \E p \in sent' :
                /\ sent' \ sent = {p}
                /\ p.type = "PaymentRequest"
                /\ p.src = ClientAddr /\ p.dst = PaymentAddr
                /\ p.body = [decision        |-> m.body.decision,
                             approved_amount |-> m.body.approved_amount,
                             policy_id       |-> m.body.policy_id]]_vars

C8_Witness ==
    \E m \in delivered, p \in net :
        /\ m.type = "DamageResponse" /\ m.src = OtherAddr
        /\ m.body.decision = "error" /\ m.body.policy_id = "POL-2"
        /\ p.type = "PaymentRequest" /\ p.body.decision = "error"
        /\ p.body.policy_id = "POL-2"
\* C9 (as the spec states it): a tick sends a DamageRequest only when the
\* orchestrator is idle, every workflow started so far being finished.
C9_TickSendsOnlyWhenIdle ==
    [][ticks' # ticks /\ sent' # sent => Idle]_vars

\* C9 (amended): every tick sends one DamageRequest with the demo values to
\* the Damage Assessor, and no state of the workflows disables the tick.
C9_EveryTickSends ==
    /\ [](ticks < MaxTicks => ENABLED Tick)
    /\ [][ticks' # ticks
          => LET m == Msg("DamageRequest", ClientAddr, DamageAddr, ticks', DemoRequest)
             IN  /\ sent' \ sent = {m}
                 /\ m \in net'
                 /\ m.body.claim_amount = FFromInt(1000)
                 /\ m.body.policy_id = "POL-12345"]_vars

\* two DamageRequests outstanding at once, the first workflow awaiting its
\* PaymentResponse when the second tick fired
C9_Witness ==
    \E a \in net, b \in net :
        /\ a.type = "PaymentRequest" /\ b.type = "DamageRequest"
        /\ a.wf < b.wf

\* C10 (as the spec states it): once a message has been lost, so that a
\* response never arrives, the orchestrator sends nothing more and prints
\* no summary.
C10_StalledForeverAfterLoss ==
    [][lost # {}
       => /\ \A m \in sent' \ sent : m.src # ClientAddr
          /\ printed' = printed]_vars

Stage(m) ==
    CASE m.type = "DamageRequest"   -> 1
      [] m.type = "DamageResponse"  -> 2
      [] m.type = "PaymentRequest"  -> 3
      [] m.type = "PaymentResponse" -> 4

\* C10 (amended): nothing is retried: a lost message is never delivered, its
\* workflow sends no message of a later hop and its summary is never printed.
C10_LostWorkflowGoesNoFurther ==
    \A l \in lost :
        /\ l \notin delivered
        /\ \A m \in sent : m.wf = l.wf => Stage(m) <= Stage(l)
        /\ ~Finished(l.wf)

\* a DamageResponse was lost, and a later tick's workflow printed its summary
C10_Witness ==
    \E l \in lost :
        /\ l.type = "DamageResponse"
        /\ \E w \in 1..ticks : w > l.wf /\ Finished(w)
\* C11: every PaymentResponse of the Payment Processor, whatever the
\* decision, carries a transaction_id made of the prefix "TXN_" and an
\* integer from 100000 to 999999.  (That two responses may carry the same id
\* is what C11_Witness reaches.)
C11_TransactionIdFormat ==
    \A r \in sent :
        r.type = "PaymentResponse" /\ r.src = PaymentAddr
        => /\ Len(r.body.transaction_id) = 2
           /\ r.body.transaction_id[1] = "TXN_"
           /\ r.body.transaction_id[2] \in 100000..999999

\* a failed and a rejected response to two different requests, with the
\* same transaction_id
C11_Witness ==
    \E a \in sent, b \in sent :
        /\ a.type = "PaymentResponse" /\ b.type = "PaymentResponse"
        /\ a.wf # b.wf
        /\ a.body.status = "failed" /\ b.body.status = "rejected"
        /\ a.body.transaction_id = b.body.transaction_id
\* services in main's list of tracked processes
Tracked == {processes[i] : i \in 1..Len(processes)}

\* C12: when AGENT_SEED is unset or empty, the supervisor reports the missing
\* variable and exits with status 1, and no child process is ever launched
\* or even attempted.  (An interrupt before sys.exit(1) is reached ends it
\* with the status of the interrupt instead, a failure status as well.)
C12_MissingSeedExitsBeforeLaunch ==
    agent_seed \in {Unset, EnvStr("")}
    => /\ \A n \in Services :
            /\ child[n] = "none"
            /\ <<"started", n>> \notin reports
            /\ <<"failed", n>> \notin reports
       /\ processes = <<>>
       /\ <<"env_ok">> \notin reports
       /\ pc \in {"check_env", "checked", "exited"}
       /\ pc = "check_env" => ENABLED check_env_vars
       /\ pc = "checked"
            => <<"missing", "AGENT_SEED">> \in reports /\ ENABLED sys_exit
       /\ pc = "exited" =>
            \/ exit_code = Exit(1) /\ <<"missing", "AGENT_SEED">> \in reports
            \/ exit_code = Exit(130)

\* AGENT_SEED set to the empty string: reported, exit status 1
C12_Witness ==
    /\ agent_seed = EnvStr("")
    /\ pc = "exited"
    /\ exit_code = Exit(1)
    /\ <<"missing", "AGENT_SEED">> \in reports
    /\ \A n \in Services : child[n] = "none"

\* C13: a service whose launch failed is reported as failed, is not tracked
\* and has no process; main() goes on to the next launch all the same (it
\* ends only by an interrupt); every tracked service was started.
C13_LaunchFailureTolerated ==
    /\ [](\A n \in Services :
            /\ <<"failed", n>> \in reports
               => /\ child[n] = "none"
                  /\ n \notin Tracked
                  /\ exit_code # Exit(1)
                  /\ pc = "exited"
                        => exit_code = Exit(130) \/ <<"shutting_down">> \in reports
            /\ n \in Tracked
               => /\ <<"started", n>> \in reports
                  /\ child[n] # "none")
    /\ [](pc = "launch_payment" => ENABLED launch_payment)
    /\ [][pc = "launch_damage" /\ <<"failed", "DamageVerifier">> \in reports'
            => damage_process' = None /\ pc' = "track_damage"]_vars
    /\ [][pc = "track_damage" /\ pc' # pc
            => pc' \in {"launch_payment", "caught"}]_vars

\* the DamageVerifier failed to start, the PaymentProcessor runs and is the
\* only tracked process
C13_Witness ==
    /\ <<"failed", "DamageVerifier">> \in reports
    /\ processes = <<"PaymentProcessor">>
    /\ child["PaymentProcessor"] = "running"
    /\ pc = "polling"

\* C14: the shutdown sends terminate to every tracked process, waits at most
\* WaitTimeout for it, kills it only when it is still running at the end of
\* that wait, and when the shutdown is over (main() returns) every tracked
\* process has exited, wherever inside "try:" the interrupt came.  (A child
\* started but not yet tracked when the interrupt comes is not among them.)
C14_ShutdownStopsTracked ==
    /\ [](waited <= WaitTimeout)
    /\ [](exit_code = Exit(0)
            => \A n \in Tracked :
                  /\ child[n] = "exited"
                  /\ <<"stopping", n>> \in reports
                  /\ <<"stopped", n>> \in reports
                        \/ <<"force_kill", n>> \in reports)
    /\ [][\A n \in Services :
            <<"force_kill", n>> \in reports' \ reports
            => /\ <<"stopping", n>> \in reports
               /\ waited = WaitTimeout
               /\ child[n] = "running"]_vars
    /\ [](pc = "killing"
            => /\ <<"force_kill", processes[idx]>> \in reports
               /\ waited = WaitTimeout)
    /\ [][(pc \in TryBlock) /\ (pc' \notin TryBlock) => pc' = "caught"]_vars
    /\ [](pc = "caught" => ENABLED shutting_down)

\* interrupted while polling: the DamageVerifier had to be killed after the
\* full wait, the PaymentProcessor exited on terminate
C14_Witness ==
    /\ exit_code = Exit(0)
    /\ processes = <<"DamageVerifier", "PaymentProcessor">>
    /\ <<"force_kill", "DamageVerifier">> \in reports
    /\ <<"stopped", "PaymentProcessor">> \in reports
    /\ <<"force_kill", "PaymentProcessor">> \notin reports
\* C15: the timer fires whether or not a workflow is outstanding, and every
\* DamageResponse or PaymentResponse the orchestrator receives replaces what
\* the global held, whichever workflow that was from.
C15_TicksOverlapAndResponsesOverwrite ==
    /\ [](ticks < MaxTicks /\ ~Idle => ENABLED Tick)
    /\ [][\A m \in delivered' \ delivered :
            /\ m.type = "DamageResponse"
               => damage_response' = m.body /\ stored_wf'.damage = m.wf
            /\ m.type = "PaymentResponse"
               => payment_response' = m.body /\ stored_wf'.payment = m.wf]_vars

\* a later tick's DamageRequest was sent while workflow w was outstanding,
\* and its DamageResponse has replaced the stored DamageResponse of w, which
\* is still not finished
C15_Witness ==
    \E w \in 1..ticks, v \in 1..ticks :
        /\ w < v
        /\ ~Finished(w)
        /\ \E m \in delivered : m.type = "DamageResponse" /\ m.wf = w
        /\ \E m \in net : m.wf = w
        /\ stored_wf.damage = v
\* the summary of workflow w has been printed, and it carries the four
\* fields of the PaymentResponse the Payment Processor sent for w
SummaryPrinted(w) ==
    \E i \in 1..Len(printed), r \in delivered :
        /\ printed[i].wf = w
        /\ r.type = "PaymentResponse" /\ r.src = PaymentAddr /\ r.wf = w
        /\ printed[i].out.policy_id = r.body.policy_id
        /\ printed[i].out.status = r.body.status
        /\ printed[i].out.paid_amount = r.body.paid_amount
        /\ printed[i].out.transaction_id = r.body.transaction_id

\* the orchestrator has sent the DamageRequest of workflow w
RequestSent(w) == \E q \in sent : q.type = "DamageRequest" /\ q.wf = w

\* C16: without loss and with every handler weakly fair, each DamageRequest
\* the orchestrator sent is eventually followed by the summary of its own
\* workflow, carrying the policy id, status, paid amount and transaction id
\* of the PaymentResponse produced for it.  (sent only grows, so a request
\* sent now is still sent at the later moment when every request sent has
\* its summary.)
C16_EveryRequestReachesSummary ==
    []<>(\A w \in 1..MaxTicks : RequestSent(w) => SummaryPrinted(w))

\* every tick's workflow has ended with its summary
C16_Witness ==
    /\ ticks = MaxTicks
    /\ \A w \in 1..MaxTicks : SummaryPrinted(w)
\* the messages a step hands to a handler, and the messages it sends
Received == delivered' \ delivered
Emitted == sent' \ sent

\* C17: the messages follow Orchestrator -> Damage Assessor -> Orchestrator
\* -> Payment Processor -> Orchestrator.  A PaymentRequest is sent only by
\* the orchestrator, in the step that receives a DamageResponse; the summary
\* is printed only in a step that receives a PaymentResponse; each backend
\* sends only the answer to the request it receives, to that request's
\* sender; no message goes from one backend to the other.
C17_MessageOrder ==
    /\ [][\A p \in Emitted :
            /\ p.type = "PaymentRequest"
               => /\ p.src = ClientAddr /\ p.dst = PaymentAddr
                  /\ \E r \in Received :
                        r.type = "DamageResponse" /\ r.dst = ClientAddr
            /\ p.type = "DamageResponse"
               => /\ p.src = DamageAddr
                  /\ \E q \in Received :
                        q.type = "DamageRequest" /\ q.src = p.dst
            /\ p.type = "PaymentResponse"
               => /\ p.src = PaymentAddr
                  /\ \E q \in Received :
                        q.type = "PaymentRequest" /\ q.src = p.dst
            /\ p.type = "DamageRequest"
               => p.src = ClientAddr /\ p.dst = DamageAddr
            /\ p.src = DamageAddr => p.type = "DamageResponse"
            /\ p.src = PaymentAddr => p.type = "PaymentResponse"
            /\ ~(p.src \in {DamageAddr, PaymentAddr}
                    /\ p.dst \in {DamageAddr, PaymentAddr})]_vars
    /\ [][printed' # printed
            => \E r \in Received :
                  r.type = "PaymentResponse" /\ r.dst = ClientAddr]_vars
    /\ [][Cardinality(Received) <= 1 /\ Cardinality(Emitted) <= 1]_vars

\* a DamageRequest of another client was answered to that client, not to
\* the orchestrator
C17_Witness ==
    \E q \in delivered, r \in sent :
        /\ q.type = "DamageRequest" /\ q.src = OtherAddr
        /\ r.type = "DamageResponse" /\ r.src = DamageAddr /\ r.dst = OtherAddr
        /\ \A p \in sent : p.dst # ClientAddr
\* C18: in a workflow that starts with a DamageRequest handled by the Damage
\* Assessor and goes on through the orchestrator, the decision is one of the
\* two payouts and every PaymentResponse has status "completed": "failed"
\* and "rejected" do not occur.
C18_WorkflowAlwaysCompleted ==
    (\E q \in sent : q.type = "DamageRequest" /\ q.src = ClientAddr)
    => /\ \A d \in sent :
            d.type = "DamageResponse"
            => d.body.decision \in {"full_payout", "deduct_payout"}
       /\ \A p \in sent :
            p.type = "PaymentRequest"
            => p.body.decision \in {"full_payout", "deduct_payout"}
       /\ \A s \in sent :
            s.type = "PaymentResponse"
            => s.body.status = "completed"
       /\ \A i \in 1..Len(printed) : printed[i].out.status = "completed"

\* a workflow claiming nothing, on equal images, ended "completed"
C18_Witness ==
    /\ \E q \in sent :
          /\ q.type = "DamageRequest" /\ q.src = ClientAddr
          /\ q.body.claim_amount = FZero
          /\ q.body.before_image = q.body.after_image
    /\ Len(printed) = 1
    /\ printed[1].out.status = "completed"
    /\ payment_response.status = "completed"
\* C19: with workflows overlapping in any order, the PaymentRequest, the
\* PaymentResponse and the summary of a workflow carry the policy id and the
\* approved amount of that workflow's own DamageResponse, whatever the
\* globals hold by then.
C19_WorkflowsDoNotMix ==
    \A d \in sent :
        d.type = "DamageResponse"
        => /\ \A p \in sent :
                p.type = "PaymentRequest" /\ p.wf = d.wf
                => /\ p.body.policy_id = d.body.policy_id
                   /\ p.body.approved_amount = d.body.approved_amount
                   /\ p.body.decision = d.body.decision
           /\ \A s \in sent :
                s.type = "PaymentResponse" /\ s.wf = d.wf
                => /\ s.body.policy_id = d.body.policy_id
                   /\ s.body.paid_amount = d.body.approved_amount
           /\ \A i \in 1..Len(printed) :
                printed[i].wf = d.wf
                => /\ printed[i].out.policy_id = d.body.policy_id
                   /\ printed[i].out.paid_amount = d.body.approved_amount

\* workflow 1 printed its own policy id and amount although the global
\* damage_response had been overwritten by workflow 2, of another policy
\* and another amount, before the PaymentRequest of workflow 1 was handled
C19_Witness ==
    \E d1 \in delivered, d2 \in delivered :
        /\ d1.type = "DamageResponse" /\ d1.wf = 1
        /\ d2.type = "DamageResponse" /\ d2.wf = 2
        /\ d1.body.policy_id # d2.body.policy_id
        /\ d1.body.approved_amount # d2.body.approved_amount
        /\ stored_wf.damage = 2
        /\ damage_response = d2.body
        /\ Len(printed) = 1
        /\ printed[1].wf = 1
        /\ printed[1].out.policy_id = d1.body.policy_id
        /\ printed[1].out.paid_amount = d1.body.approved_amount
\* x <= y
FLeq(x, y) == ~FLess(y, x)

\* C20: in a workflow started by a DamageRequest (its claim_amount is not
\* negative), 0 <= paid_amount <= approved_amount <= claim_amount: the
\* deduction is at most the claim, so the approved amount of the
\* DamageResponse is between 0 and the claim; the PaymentRequest carries
\* that approved amount; the PaymentResponse pays at most it.
C20_AmountsOrdered ==
    \A q \in sent :
        q.type = "DamageRequest"
        => /\ \A d \in sent :
                d.type = "DamageResponse"
                => /\ FLeq(d.body.deduction, q.body.claim_amount)
                   /\ FLeq(FZero, d.body.approved_amount)
                   /\ FLeq(d.body.approved_amount, q.body.claim_amount)
                   /\ \A p \in sent :
                        p.type = "PaymentRequest"
                        => p.body.approved_amount = d.body.approved_amount
           /\ \A p \in sent, s \in sent :
                p.type = "PaymentRequest" /\ s.type = "PaymentResponse"
                => /\ FLeq(FZero, s.body.paid_amount)
                   /\ FLeq(s.body.paid_amount, p.body.approved_amount)
                   /\ FLeq(s.body.paid_amount, q.body.claim_amount)
           /\ \A i \in 1..Len(printed) :
                FLeq(printed[i].out.paid_amount, q.body.claim_amount)

\* a deduction was made: 0 < paid_amount = approved_amount < claim_amount
C20_Witness ==
    \E q \in sent, d \in sent, p \in sent, s \in delivered :
        /\ q.type = "DamageRequest" /\ d.type = "DamageResponse"
        /\ p.type = "PaymentRequest" /\ s.type = "PaymentResponse"
        /\ FLess(FZero, s.body.paid_amount)
        /\ s.body.paid_amount = p.body.approved_amount
        /\ p.body.approved_amount = d.body.approved_amount
        /\ FLess(d.body.approved_amount, q.body.claim_amount)
=============================================================================
